---- MODULE Spec2Model ----
(***************************************************************************)
(* A model of app.py: the recognition fallback loop                        *)
(* (analyze_image_self_healing), the response cleaning and decoding, the   *)
(* storage upload, the database insert and the button handler.             *)
(*                                                                         *)
(* Texts are sequences of lexemes.  A lexeme is a string of one or more    *)
(* characters; a lexeme other than BT holds no backquote and no lexeme     *)
(* other than "json" begins with the letters json, so that str.replace on  *)
(* the characters and Replace on the lexemes agree.  A lexeme is either    *)
(* whitespace or has no whitespace at its ends, so that str.strip agrees   *)
(* with Strip.                                                             *)
(***************************************************************************)
EXTENDS Integers, Sequences, FiniteSets, TLC

VARIABLES
  pc,               \* where the button handler stands
  presses,          \* button presses so far
  i,                \* the loop's place in models_to_try
  resp,             \* the last value call_gemini_api returned
  requests,         \* the requests of this press, as the network saw them
  error_summary,    \* local of analyze_image_self_healing
  last_error_text,  \* local of analyze_image_self_healing
  result,           \* what analyze_image_self_healing returned
  img_url,          \* what upload_img returned
  record,           \* the record save_to_db built
  panel,            \* the debug panel of the exhausted loop
  ui,               \* the messages of this press, in order
  uncaught,         \* the exception that left the handler, "" when none
  uploads,          \* the upload attempts of this press (TRUE: stored)
  inserts,          \* the insert attempts of this press
  meals             \* the rows of the meals table

vars == <<pc, presses, i, resp, requests, error_summary, last_error_text,
          result, img_url, record, panel, ui, uncaught, uploads, inserts,
          meals>>

(***************************************************************************)
(* Bounds                                                                  *)
(***************************************************************************)
MaxPresses == 1

(***************************************************************************)
(* Python values: every value is a record tagged with its type.  A dict    *)
(* is the sequence of its <<key, value>> pairs in insertion order.         *)
(***************************************************************************)
PyNone == [t |-> "None", v |-> 0]
PyInt(n) == [t |-> "int", v |-> n]
PyBool(b) == [t |-> "bool", v |-> b]
PyStr(s) == [t |-> "str", v |-> s]
PyList(l) == [t |-> "list", v |-> l]
PyDict(d) == [t |-> "dict", v |-> d]

\* Python truth value testing, as "if result:" and "url if url else ..." use it.
Truthy(x) ==
  CASE x.t = "None" -> FALSE
    [] x.t = "bool" -> x.v
    [] x.t = "int" -> x.v # 0
    [] OTHER -> Len(x.v) > 0

HasKey(d, k) == \E n \in 1..Len(d) : d[n][1] = k

Lookup(d, k) == d[CHOOSE n \in 1..Len(d) : d[n][1] = k][2]

\* d[k] = v on a dict: an existing key keeps its place.
SetKey(d, k, v) ==
  IF HasKey(d, k)
  THEN [n \in 1..Len(d) |-> IF d[n][1] = k THEN <<k, v>> ELSE d[n]]
  ELSE Append(d, <<k, v>>)

\* dict.get(key, default)
DictGet(data, key, default) ==
  IF HasKey(data.v, key) THEN Lookup(data.v, key) ELSE default

(***************************************************************************)
(* Lexemes                                                                 *)
(***************************************************************************)
Q == "\""
\* The backquote character (a TLA+ string cannot hold one).
BT == "BT"
NL == "\n"
SP == " "
EscQ == "\\\""
EscNL == "\\n"
Whitespace == {SP, NL}

NumberOf == ("0" :> 0) @@ ("1" :> 1) @@ ("200" :> 200)

NumeralOf(n) == CHOOSE w \in DOMAIN NumberOf : NumberOf[w] = n

(***************************************************************************)
(* json.loads on a text: [ok, v, n], n the place after the value.          *)
(***************************************************************************)
Raised == [ok |-> FALSE, v |-> PyNone, n |-> 0]
Returned(v, n) == [ok |-> TRUE, v |-> v, n |-> n]

RECURSIVE SkipWs(_, _)
SkipWs(s, n) ==
  IF n <= Len(s) /\ s[n] \in Whitespace THEN SkipWs(s, n + 1) ELSE n

\* The one member of a set of one member.  {e(x) : x \in {v}} is e(v) with
\* v computed once, which is how the definitions below name their
\* intermediate results.
Only(S) == CHOOSE x \in S : TRUE

First(S) == CHOOSE c \in S : \A d \in S : c <= d

Unescape(c) == IF c = EscQ THEN Q ELSE IF c = EscNL THEN NL ELSE c

\* The string literal whose opening quote is before place n: it runs to the
\* next quote, and holds no raw newline.
ScanString(s, n) ==
  Only({ IF closers = {} THEN Raised
         ELSE Only({ IF \E k \in n..(m - 1) : s[k] = NL THEN Raised
                     ELSE Returned(PyStr([k \in 1..(m - n) |->
                                            Unescape(s[n + k - 1])]), m + 1)
                     : m \in {First(closers)} })
         : closers \in {{m \in n..Len(s) : s[m] = Q}} })

RECURSIVE ParseValue(_, _)
RECURSIVE ParseMembers(_, _, _)
RECURSIVE ParseElements(_, _, _)

\* The value that starts at place n0 of s, whitespace skipped.
ParseValue(s, n0) ==
  Only({ IF n > Len(s) THEN Raised
         ELSE IF s[n] = Q THEN ScanString(s, n + 1)
         ELSE IF s[n] = "{" THEN
           Only({ IF m <= Len(s) /\ s[m] = "}"
                  THEN Returned(PyDict(<<>>), m + 1)
                  ELSE ParseMembers(s, m, <<>>)
                  : m \in {SkipWs(s, n + 1)} })
         ELSE IF s[n] = "[" THEN
           Only({ IF m <= Len(s) /\ s[m] = "]"
                  THEN Returned(PyList(<<>>), m + 1)
                  ELSE ParseElements(s, m, <<>>)
                  : m \in {SkipWs(s, n + 1)} })
         ELSE IF s[n] = "null" THEN Returned(PyNone, n + 1)
         ELSE IF s[n] = "true" THEN Returned(PyBool(TRUE), n + 1)
         ELSE IF s[n] = "false" THEN Returned(PyBool(FALSE), n + 1)
         ELSE IF s[n] \in DOMAIN NumberOf
         THEN Returned(PyInt(NumberOf[s[n]]), n + 1)
         ELSE Raised
         : n \in {SkipWs(s, n0)} })

\* After a member "key": value, the place e: the end of the object, or a
\* comma and the next member.
AfterMember(s, e, d) ==
  IF e > Len(s) THEN Raised
  ELSE IF s[e] = "}" THEN Returned(PyDict(d), e + 1)
  ELSE IF s[e] = "," THEN ParseMembers(s, SkipWs(s, e + 1), d)
  ELSE Raised

\* The members of an object from place n of s on, d the members before.
ParseMembers(s, n, d) ==
  IF n > Len(s) \/ s[n] # Q THEN Raised
  ELSE
    Only({ IF ~k.ok THEN Raised
           ELSE
             Only({ IF c > Len(s) \/ s[c] # ":" THEN Raised
                    ELSE
                      Only({ IF ~val.ok THEN Raised
                             ELSE Only({ AfterMember(s, e, d2)
                                         : e \in {SkipWs(s, val.n)},
                                           d2 \in {SetKey(d, k.v.v, val.v)} })
                             : val \in {ParseValue(s, c + 1)} })
                    : c \in {SkipWs(s, k.n)} })
           : k \in {ScanString(s, n + 1)} })

\* After an element, the place e: the end of the array, or a comma and the
\* next element.
AfterElement(s, e, l) ==
  IF e > Len(s) THEN Raised
  ELSE IF s[e] = "]" THEN Returned(PyList(l), e + 1)
  ELSE IF s[e] = "," THEN ParseElements(s, e + 1, l)
  ELSE Raised

\* The elements of an array from place n of s on, l the elements before.
ParseElements(s, n, l) ==
  Only({ IF ~val.ok THEN Raised
         ELSE Only({ AfterElement(s, e, l2)
                     : e \in {SkipWs(s, val.n)}, l2 \in {Append(l, val.v)} })
         : val \in {ParseValue(s, n)} })

\* json.loads(s): one value, whitespace around it, nothing after it.
json_loads(s) ==
  Only({ IF val.ok /\ SkipWs(s, val.n) = Len(s) + 1 THEN val ELSE Raised
         : val \in {ParseValue(s, 1)} })

(***************************************************************************)
(* json.dumps(v) with its default separators ", " and ": ".                *)
(***************************************************************************)
EscapeLexeme(c) == IF c = Q THEN EscQ ELSE IF c = NL THEN EscNL ELSE c

Escape(s) == [n \in 1..Len(s) |-> EscapeLexeme(s[n])]

Quoted(s) == <<Q>> \o Escape(s) \o <<Q>>

RECURSIVE json_dumps(_)
RECURSIVE DumpMembers(_, _)
RECURSIVE DumpElements(_, _)

json_dumps(x) ==
  CASE x.t = "None" -> <<"null">>
    [] x.t = "bool" -> IF x.v THEN <<"true">> ELSE <<"false">>
    [] x.t = "int" -> <<NumeralOf(x.v)>>
    [] x.t = "str" -> Quoted(x.v)
    [] x.t = "list" -> <<"[">> \o DumpElements(x.v, 1) \o <<"]">>
    [] x.t = "dict" -> <<"{">> \o DumpMembers(x.v, 1) \o <<"}">>

DumpMembers(d, n) ==
  IF n > Len(d) THEN <<>>
  ELSE (IF n > 1 THEN <<",", SP>> ELSE <<>>)
       \o Quoted(d[n][1]) \o <<":", SP>> \o json_dumps(d[n][2])
       \o DumpMembers(d, n + 1)

DumpElements(l, n) ==
  IF n > Len(l) THEN <<>>
  ELSE (IF n > 1 THEN <<",", SP>> ELSE <<>>)
       \o json_dumps(l[n]) \o DumpElements(l, n + 1)

(***************************************************************************)
(* str.replace(old, "") and str.strip()                                    *)
(***************************************************************************)
\* The places at or after n where old occurs in s.
Occurrences(s, old, n) ==
  {m \in n..(Len(s) - Len(old) + 1) : SubSeq(s, m, m + Len(old) - 1) = old}

\* s[n..] without the occurrences of old: the next occurrence is found,
\* what is before it is kept, and the search goes on after it.
RECURSIVE RemoveFrom(_, _, _)
RemoveFrom(s, old, n) ==
  Only({ IF found = {} THEN SubSeq(s, n, Len(s))
         ELSE Only({ SubSeq(s, n, m - 1) \o RemoveFrom(s, old, m + Len(old))
                     : m \in {First(found)} })
         : found \in {Occurrences(s, old, n)} })

\* s.replace(old, "")
Remove(s, old) == RemoveFrom(s, old, 1)

RECURSIVE LStrip(_)
LStrip(s) ==
  IF s # <<>> /\ Head(s) \in Whitespace THEN LStrip(Tail(s)) ELSE s

RECURSIVE RStrip(_)
RStrip(s) ==
  IF s # <<>> /\ s[Len(s)] \in Whitespace
  THEN RStrip(SubSeq(s, 1, Len(s) - 1)) ELSE s

Strip(s) == RStrip(LStrip(s))

\* clean_text with the "json" of the opening fence left in place.
clean_text_plain_fence_only(raw_text) ==
  Strip(Remove(raw_text, <<BT, BT, BT>>))

FenceJson == <<BT, BT, BT, "json">>
Fence == <<BT, BT, BT>>

\* clean_text = raw_text.replace(FenceJson, "").replace(Fence, "").strip()
clean_text(raw_text) == Strip(Remove(Remove(raw_text, FenceJson), Fence))

(***************************************************************************)
(* Subscription x[key] and the test "key in x", with the exceptions Python *)
(* raises: [ok, v, exc].                                                    *)
(***************************************************************************)
Raise(exc) == [ok |-> FALSE, v |-> PyNone, exc |-> exc]
Value(v) == [ok |-> TRUE, v |-> v, exc |-> ""]

\* x[key].  Of a str only the type of x[n] matters to the callers: its first
\* lexeme stands for the character.
GetItem(x, key) ==
  CASE x.t = "dict" ->
         IF key.t = "str" /\ HasKey(x.v, key.v) THEN Value(Lookup(x.v, key.v))
         ELSE Raise("KeyError")
    [] x.t \in {"list", "str"} ->
         IF key.t # "int" THEN Raise("TypeError")
         ELSE IF key.v < 0 \/ key.v >= Len(x.v) THEN Raise("IndexError")
         ELSE IF x.t = "list" THEN Value(x.v[key.v + 1])
         ELSE Value(PyStr(<<x.v[key.v + 1]>>))
    [] OTHER -> Raise("TypeError")

\* key in x, key a str
Contains(x, key) ==
  CASE x.t = "dict" -> Value(PyBool(HasKey(x.v, key.v)))
    [] x.t = "list" -> Value(PyBool(\E n \in 1..Len(x.v) : x.v[n] = key))
    [] x.t = "str" ->
         Value(PyBool(\E n \in 1..Len(x.v) :
                        n + Len(key.v) - 1 <= Len(x.v)
                        /\ SubSeq(x.v, n, n + Len(key.v) - 1) = key.v))
    [] OTHER -> Raise("TypeError")

\* x[path[n]][path[n+1]]...
RECURSIVE Walk(_, _, _)
Walk(x, path, n) ==
  IF n > Len(path) THEN Value(x)
  ELSE Only({ IF y.ok THEN Walk(y.v, path, n + 1) ELSE y
              : y \in {GetItem(x, path[n])} })

Key(w) == PyStr(<<w>>)

\* res_data['candidates'][0]['content']['parts'][0]['text']
TextPath ==
  <<Key("candidates"), PyInt(0), Key("content"), Key("parts"), PyInt(0),
    Key("text")>>

(***************************************************************************)
(* What the model answers: the text part of a 200 response.                *)
(***************************************************************************)
Fields == <<"food_name", "calories", "nutrients", "analysis">>

FieldText ==
  ("food_name" :> Quoted(<<"rice">>)) @@ ("calories" :> <<"200">>)
  @@ ("nutrients" :> Quoted(<<"carbs">>)) @@ ("analysis" :> Quoted(<<"ok">>))

\* The members of Fields[n..] that are in S, separated by commas.
RECURSIVE MembersText(_, _, _)
MembersText(S, n, first) ==
  IF n > Len(Fields) THEN <<>>
  ELSE IF Fields[n] \notin S THEN MembersText(S, n + 1, first)
  ELSE (IF first THEN <<>> ELSE <<",">>)
       \o Quoted(<<Fields[n]>>) \o <<":">> \o FieldText[Fields[n]]
       \o MembersText(S, n + 1, FALSE)

\* A JSON object holding the fields of S.
ObjectText(S) == <<"{">> \o MembersText(S, 1, TRUE) \o <<"}">>

AllFields == {Fields[n] : n \in 1..Len(Fields)}

FullText == ObjectText(AllFields)

\* "No food detected": a structured result with calories = 0.
NoFoodText ==
  <<"{">> \o Quoted(<<"food_name">>) \o <<":">> \o Quoted(<<"none">>)
  \o <<",">> \o Quoted(<<"calories">>) \o <<":", "0", ",">>
  \o Quoted(<<"nutrients">>) \o <<":">> \o Quoted(<<>>) \o <<",">>
  \o Quoted(<<"analysis">>) \o <<":">> \o Quoted(<<"no", SP, "food">>)
  \o <<"}">>

\* An object one of whose strings holds three backquotes.
QuotingText ==
  <<"{">> \o Quoted(<<"food_name">>) \o <<":">> \o Quoted(<<"rice">>)
  \o <<",">> \o Quoted(<<"calories">>) \o <<":", "200", ",">>
  \o Quoted(<<"analysis">>) \o <<":">>
  \o Quoted(<<"use", SP, BT, BT, BT, "rice", BT, BT, BT>>)
  \o <<"}">>

ObjectTexts == {ObjectText(S) : S \in SUBSET AllFields}

\* JSON texts that are no object.
ValueTexts ==
  { <<"null">>, <<"0">>, <<"200">>, <<"true">>, <<"[", "]">>,
    <<"[">> \o FullText \o <<"]">>, Quoted(<<>>), Quoted(<<"rice">>) }

\* The code-fence markers around a text.
JsonFence == [pre |-> <<BT, BT, BT, "json", NL>>, post |-> <<NL, BT, BT, BT>>]
PlainFence == [pre |-> <<BT, BT, BT>>, post |-> <<BT, BT, BT, NL>>]
Fences == {JsonFence, PlainFence}

Fenced(f, text) == f.pre \o text \o f.post

\* The JSON texts the model also sends between fences.
FencedJson == {FullText, NoFoodText, QuotingText}

ProseText == <<"Sorry,", SP, "no", SP, "food", SP, "here.">>

\* Texts whose content, fences apart, is JSON.
JsonTexts ==
  ObjectTexts \cup ValueTexts \cup {NoFoodText, QuotingText}
  \cup {Fenced(f, t) : f \in Fences, t \in FencedJson}

\* Texts whose content is no JSON.
ProseTexts == {ProseText}

(***************************************************************************)
(* The bodies of the endpoint's responses.                                 *)
(***************************************************************************)
Envelope(raw_text) ==
  <<"{">> \o Quoted(<<"candidates">>) \o <<":", "[", "{">>
  \o Quoted(<<"content">>) \o <<":", "{">> \o Quoted(<<"parts">>)
  \o <<":", "[", "{">> \o Quoted(<<"text">>) \o <<":">> \o Quoted(raw_text)
  \o <<"}", "]", "}", "}", "]", "}">>

EmptyBody == <<"{">> \o Quoted(<<"candidates">>) \o <<":", "[", "]", "}">>

\* A candidate without content (a blocked answer).
BlockedBody ==
  <<"{">> \o Quoted(<<"candidates">>) \o <<":", "[", "{">>
  \o Quoted(<<"finishReason">>) \o <<":">> \o Quoted(<<"SAFETY">>)
  \o <<"}", "]", "}">>

ErrorBody(code, model) ==
  <<"{">> \o Quoted(<<"error">>) \o <<":", "{">> \o Quoted(<<"code">>)
  \o <<":", code, ",">> \o Quoted(<<"message">>) \o <<":">>
  \o Quoted(<<"models/", model>>) \o <<"}", "}">>

HttpResponse(status_code, text, class) ==
  [kind |-> "response", status_code |-> status_code, text |-> text,
   class |-> class]

\* The 200 responses: class is what the answer is, "parseable" (text that
\* holds JSON) or "failure".
Answers ==
  {HttpResponse(200, Envelope(t), "parseable") : t \in JsonTexts}
  \cup {HttpResponse(200, Envelope(t), "failure") : t \in ProseTexts}
  \cup {HttpResponse(200, b, "failure") : b \in {EmptyBody, BlockedBody}}

\* What requests.post does for one request to model: a response, or an
\* exception ("unreachable": there is no connection).
Network(model) ==
  Answers
  \cup {HttpResponse(404, ErrorBody("404", model), "failure"),
        HttpResponse(429, ErrorBody("429", model), "failure"),
        HttpResponse(500, ErrorBody("500", model), "failure")}
  \cup {[kind |-> "ConnectionError", status_code |-> 0, text |-> <<>>,
         class |-> "unreachable"],
        [kind |-> "Timeout", status_code |-> 0, text |-> <<model>>,
         class |-> "failure"]}

(***************************************************************************)
(* call_gemini_api.  The texts of the source that are Chinese are written  *)
(* in English here and in what follows.                                    *)
(***************************************************************************)
MockResp(status_code, text) == [status_code |-> status_code, text |-> text]

call_gemini_api(net) ==
  IF net.kind = "response" THEN MockResp(net.status_code, net.text)
  ELSE IF net.kind = "ConnectionError"
  THEN MockResp(-1, <<"cannot connect to the Google server; check the [proxy] url of secrets.toml">>)
  ELSE MockResp(-2, <<"request exception:", SP>> \o net.text)

(***************************************************************************)
(* analyze_image_self_healing: one turn of the loop                        *)
(***************************************************************************)
models_to_try ==
  <<"gemini-1.5-flash-latest", "gemini-1.5-flash-001",
    "gemini-1.5-pro-latest", "gemini-2.0-flash-exp">>

\* What a turn leaves: whether it returned, the value returned, error_msg
\* and last_error_text.
Turn(returns, value, error_msg, text) ==
  [returns |-> returns, value |-> value, error_msg |-> error_msg,
   last_error_text |-> text]

\* except Exception as e
Except(r, exc) ==
  Turn(FALSE, PyNone, <<"JSON parse failed:", SP, exc>>, r.text)

\* the else of the test for candidates
EmptyData(res_data) ==
  Turn(FALSE, PyNone, <<"API returned empty data">>, json_dumps(res_data))

\* The try block once res_data = resp.json() is there.
Candidates(r, res_data) ==
  LET has == Contains(res_data, Key("candidates"))
      candidates == GetItem(res_data, Key("candidates"))
      raw_text == Walk(res_data, TextPath, 1)
  IN IF ~has.ok THEN Except(r, has.exc)
     ELSE IF ~has.v.v THEN EmptyData(res_data)
     ELSE IF ~candidates.ok THEN Except(r, candidates.exc)
     ELSE IF ~Truthy(candidates.v) THEN EmptyData(res_data)
     ELSE IF ~raw_text.ok THEN Except(r, raw_text.exc)
     ELSE IF raw_text.v.t # "str" THEN Except(r, "AttributeError")
     ELSE Only({ IF decoded.ok THEN Turn(TRUE, decoded.v, <<>>, <<>>)
                 ELSE Except(r, "JSONDecodeError")
                 : decoded \in {json_loads(clean_text(raw_text.v.v))} })

\* if resp.status_code == 200: try ... except
On200(r) ==
  Only({ IF ~res_data.ok THEN Except(r, "JSONDecodeError")
         ELSE Candidates(r, res_data.v)
         : res_data \in {json_loads(r.text)} })

\* The branches on resp.status_code; last is last_error_text before them.
Branches(r, last) ==
  IF r.status_code = 200 THEN On200(r)
  ELSE IF r.status_code = 429
  THEN Turn(FALSE, PyNone, <<"quota exhausted (429)">>, last)
  ELSE IF r.status_code = 404
  THEN Turn(FALSE, PyNone, <<"model not found (404)">>, r.text)
  ELSE Turn(FALSE, PyNone, <<"error code", SP, ToString(r.status_code)>>,
            r.text)

\* Aborts with the two stand-ins of call_gemini_api mixed up.
Aborts_on_other_exception(r) == r.status_code = -2

\* if resp.status_code == -1: ... return None
Aborts(r) == r.status_code = -1

\* Advance with a rate-limited model asked again.
Advance_retrying_429(n, r) == IF r.status_code = 429 THEN n ELSE n + 1

\* for model in models_to_try: the place of the next model
Advance(n, r) == n + 1

(***************************************************************************)
(* save_to_db: the record                                                  *)
(***************************************************************************)
UnknownFood == PyStr(<<"unknown food">>)
NoText == PyStr(<<"none">>)

\* save_to_db_record with analysis read under the key of nutrients.
save_to_db_record_analysis_miskeyed(data, url) ==
  [food_name |-> DictGet(data, <<"food_name">>, UnknownFood),
   calories |-> DictGet(data, <<"calories">>, PyInt(0)),
   nutrients |-> DictGet(data, <<"nutrients">>, NoText),
   analysis |-> DictGet(data, <<"nutrients">>, NoText),
   image_url |-> IF Truthy(url) THEN url ELSE PyStr(<<>>)]

save_to_db_record(data, url) ==
  [food_name |-> DictGet(data, <<"food_name">>, UnknownFood),
   calories |-> DictGet(data, <<"calories">>, PyInt(0)),
   nutrients |-> DictGet(data, <<"nutrients">>, NoText),
   analysis |-> DictGet(data, <<"analysis">>, NoText),
   image_url |-> IF Truthy(url) THEN url ELSE PyStr(<<>>)]

NoRecord ==
  [food_name |-> PyNone, calories |-> PyNone, nutrients |-> PyNone,
   analysis |-> PyNone, image_url |-> PyNone]

\* upload_img: the URL it returns
PublicUrl ==
  PyStr(<<"project_url", "/storage/v1/object/public/food-images/", "path">>)

(***************************************************************************)
(* The state machine                                                       *)
(***************************************************************************)
NoResp == MockResp(0, <<>>)
NoPanel == [shown |-> FALSE, error_summary |-> <<>>, last_error_text |-> <<>>]

\* A fresh run of the script: nothing is kept but the table.
Fresh ==
  /\ i = 1
  /\ resp = NoResp
  /\ requests = <<>>
  /\ error_summary = <<>>
  /\ last_error_text = <<>>
  /\ result = PyNone
  /\ img_url = PyNone
  /\ record = NoRecord
  /\ panel = NoPanel
  /\ ui = <<>>
  /\ uncaught = ""
  /\ uploads = <<>>
  /\ inserts = <<>>

Init ==
  /\ pc = "idle"
  /\ presses = 0
  /\ meals = <<>>
  /\ Fresh

\* The button is pressed: a fresh run of the script, in which
\* analyze_image_self_healing starts.
Press ==
  /\ pc \in {"idle", "done"}
  /\ presses < MaxPresses
  /\ pc' = "call"
  /\ presses' = presses + 1
  /\ i' = 1
  /\ resp' = NoResp
  /\ requests' = <<>>
  /\ error_summary' = <<>>
  /\ last_error_text' = <<>>
  /\ result' = PyNone
  /\ img_url' = PyNone
  /\ record' = NoRecord
  /\ panel' = NoPanel
  /\ ui' = <<>>
  /\ uncaught' = ""
  /\ uploads' = <<>>
  /\ inserts' = <<>>
  /\ UNCHANGED meals

\* The endpoint answers the request for models_to_try[i]; the loop runs to
\* its next request or returns, and the handler tests the result.
GeminiAnswers ==
  /\ pc = "call"
  /\ \E net \in Network(models_to_try[i]) :
     \E r \in {call_gemini_api(net)} :
     \E turn \in {Branches(r, last_error_text)} :
       LET model == models_to_try[i]
           summary == Append(error_summary, <<model, ":", SP>> \o turn.error_msg)
           next == Advance(i, r)
       IN /\ resp' = r
          /\ requests' = Append(requests, [model |-> model, class |-> net.class])
          /\ IF turn.returns
             THEN /\ result' = turn.value
                  /\ pc' = IF Truthy(turn.value) THEN "upload" ELSE "done"
                  /\ error_summary' = <<>>
                  /\ last_error_text' = <<>>
                  /\ UNCHANGED <<i, ui, panel>>
             ELSE IF Aborts(r)
             THEN /\ ui' = Append(ui, "network_error")
                  /\ pc' = "done"
                  /\ error_summary' = <<>>
                  /\ last_error_text' = <<>>
                  /\ UNCHANGED <<i, result, panel>>
             ELSE IF next > Len(models_to_try)
             THEN /\ ui' = Append(ui, "all_failed")
                  /\ panel' = [shown |-> TRUE, error_summary |-> summary,
                               last_error_text |-> turn.last_error_text]
                  /\ pc' = "done"
                  /\ error_summary' = <<>>
                  /\ last_error_text' = <<>>
                  /\ UNCHANGED <<i, result>>
             ELSE /\ i' = next
                  /\ error_summary' = summary
                  /\ last_error_text' = turn.last_error_text
                  /\ UNCHANGED <<pc, result, ui, panel>>
  /\ UNCHANGED <<presses, img_url, record, uncaught, uploads, inserts, meals>>

\* The storage service answers the upload; save_to_db builds its record.
StorageAnswers ==
  /\ pc = "upload"
  /\ \E stored \in BOOLEAN :
       LET url == IF stored THEN PublicUrl ELSE PyNone IN
       /\ uploads' = Append(uploads, stored)
       /\ img_url' = url
       /\ ui' = IF stored THEN ui ELSE Append(ui, "upload_warning")
       /\ IF result.t = "dict"
          THEN /\ record' = save_to_db_record(result, url)
               /\ pc' = "insert"
               /\ UNCHANGED uncaught
          ELSE /\ uncaught' = "AttributeError"
               /\ pc' = "done"
               /\ UNCHANGED record
  /\ UNCHANGED <<presses, i, resp, requests, error_summary, last_error_text,
                 result, panel, inserts, meals>>

\* st.success(f"... {result['food_name']} - {result['calories']} ...")
SuccessMessage(data) ==
  LET food_name == GetItem(data, Key("food_name"))
      calories == GetItem(data, Key("calories"))
  IN IF ~food_name.ok THEN food_name.exc
     ELSE IF ~calories.ok THEN calories.exc
     ELSE ""

\* The database answers the insert; the handler shows how it went.
DatabaseAnswers ==
  /\ pc = "insert"
  /\ \E inserted \in BOOLEAN :
       /\ inserts' = Append(inserts, record)
       /\ IF inserted
          THEN /\ meals' = Append(meals, record)
               /\ uncaught' = SuccessMessage(result)
               /\ ui' = IF SuccessMessage(result) = "" THEN Append(ui, "success")
                        ELSE ui
          ELSE /\ ui' = Append(ui, "db_error")
               /\ UNCHANGED <<meals, uncaught>>
  /\ pc' = "done"
  /\ UNCHANGED <<presses, i, resp, requests, error_summary, last_error_text,
                 result, img_url, record, panel, uploads>>

Next == Press \/ GeminiAnswers \/ StorageAnswers \/ DatabaseAnswers

Spec == Init /\ [][Next]_vars

(***************************************************************************)
(* Properties                                                              *)
(***************************************************************************)
Last == requests[Len(requests)]

\* The requests went to the first models of models_to_try, one each, in
\* their order.
InOrder ==
  /\ Len(requests) <= Len(models_to_try)
  /\ \A k \in 1..Len(requests) :
       k <= Len(models_to_try) => requests[k].model = models_to_try[k]

AllFailed == \A k \in 1..Len(requests) : requests[k].class = "failure"

\* What the text part of response r decodes to, fences removed.
Decoded(r) ==
  json_loads(clean_text(Walk(json_loads(r.text).v, TextPath, 1).v.v))

Shown(message) == \E k \in 1..Len(ui) : ui[k] = message

\* C1: when model k is the first to answer 200 with text that decodes as
\* JSON, and the models before it failed without a loss of the connection,
\* the loop has returned the value decoded from that answer after k
\* requests, one to each of the first k models in their order, and no
\* request follows.
C1_FirstSuccessReturns ==
  \A k \in 1..Len(requests) :
    (requests[k].class = "parseable"
     /\ \A j \in 1..(k - 1) : requests[j].class = "failure")
    => /\ Len(requests) = k
       /\ InOrder
       /\ pc # "call"
       /\ Decoded(resp).ok
       /\ result = Decoded(resp).v

C1_Witness ==
  /\ Len(requests) = 3
  /\ Last.class = "parseable"
  /\ pc = "upload"
  /\ result.t = "dict"

\* C2: while every model asked has failed without a loss of the connection,
\* the requests are one per model in the order of the list and the loop asks
\* on; once it is over, every model has been asked once, None is returned
\* and the handler neither uploads nor inserts.
C2_AllFailuresExhaustTheList ==
  (requests # <<>> /\ AllFailed)
  => /\ InOrder
     /\ pc \in {"call", "done"}
     /\ pc = "call" => i = Len(requests) + 1 /\ i <= Len(models_to_try)
     /\ pc = "done" => /\ Len(requests) = Len(models_to_try)
                       /\ result = PyNone
                       /\ panel.shown
                       /\ Shown("all_failed")
                       /\ uploads = <<>> /\ inserts = <<>>

\* Every model answered 404.
C2_Witness ==
  /\ pc = "done"
  /\ Len(requests) = Len(models_to_try)
  /\ AllFailed
  /\ \A k \in 1..Len(panel.error_summary) :
       panel.error_summary[k]
         = <<models_to_try[k], ":", SP, "model not found (404)">>

\* C3: when the request to model k finds no connection, the loop is over:
\* the connectivity error is shown, None is returned, no request follows the
\* one to model k, and nothing is uploaded or inserted.
C3_UnreachableAborts ==
  \A k \in 1..Len(requests) :
    requests[k].class = "unreachable"
    => /\ Len(requests) = k
       /\ InOrder
       /\ resp.status_code = -1
       /\ pc = "done"
       /\ result = PyNone
       /\ ui = <<"network_error">>
       /\ ~panel.shown
       /\ uploads = <<>> /\ inserts = <<>>

C3_Witness ==
  /\ Len(requests) = 3
  /\ Last.class = "unreachable"
  /\ requests[1].class = "failure" /\ requests[2].class = "failure"
  /\ pc = "done"

\* The field of record and of every insert: the field of the result when it
\* has it, the default otherwise.
RecordKeeps(default) ==
  record # NoRecord
  => /\ result.t = "dict"
     /\ \A n \in 1..Len(Fields) :
          record[Fields[n]] =
            IF HasKey(result.v, <<Fields[n]>>)
            THEN Lookup(result.v, <<Fields[n]>>)
            ELSE default[Fields[n]]
     /\ \A n \in 1..Len(inserts) : inserts[n] = record

\* C4 as the code has it: the record save_to_db builds holds every field the
\* result has, unchanged, and for a missing field the default of the code:
\* "unknown food" for food_name, 0 for calories, "none" for nutrients and for
\* analysis.
C4_RecordDefaultsOfTheCode ==
  RecordKeeps([food_name |-> UnknownFood, calories |-> PyInt(0),
               nutrients |-> NoText, analysis |-> NoText])

\* C4 as claimed: the default of nutrients and of analysis is the empty
\* string.
C4_RecordDefaultsAsClaimed ==
  RecordKeeps([food_name |-> UnknownFood, calories |-> PyInt(0),
               nutrients |-> PyStr(<<>>), analysis |-> PyStr(<<>>)])

\* A result with food_name and analysis and without calories and nutrients
\* has been given its record.
C4_Witness ==
  /\ pc = "insert"
  /\ result.t = "dict"
  /\ HasKey(result.v, <<"food_name">>) /\ HasKey(result.v, <<"analysis">>)
  /\ ~HasKey(result.v, <<"calories">>) /\ ~HasKey(result.v, <<"nutrients">>)
  /\ record.calories = PyInt(0) /\ record.nutrients = NoText
  /\ record.analysis = PyStr(<<"ok">>)

Recognised == requests # <<>> /\ Last.class = "parseable"

\* C5: a press in which the recognition succeeded and the upload failed ends
\* with one insert attempted, of a record that keeps the fields recognised
\* and has an empty image_url.
C5_FailedUploadStillInserts ==
  (pc = "done" /\ Recognised /\ uploads = <<FALSE>>)
  => /\ Len(inserts) = 1
     /\ inserts[1].image_url \in {PyNone, PyStr(<<>>)}
     /\ \A n \in 1..Len(Fields) :
          (result.t = "dict" /\ HasKey(result.v, <<Fields[n]>>))
          => inserts[1][Fields[n]] = Lookup(result.v, <<Fields[n]>>)

\* C6: a press ends in the success message or in an error or warning
\* message, and no exception leaves the handler.
C6_EveryPressEndsInAMessage ==
  pc = "done"
  => /\ uncaught = ""
     /\ \/ Shown("success")
        \/ Shown("network_error") \/ Shown("all_failed")
        \/ Shown("upload_warning") \/ Shown("db_error")

\* C7: a press ends with one insert attempted when some model's answer was
\* parseable JSON, and with none otherwise.
C7_OneInsertPerRecognition ==
  pc = "done"
  => Len(inserts) = IF Recognised THEN 1 ELSE 0

\* C8: the loop returns None exactly when no model's answer was parseable
\* JSON, and the handler takes every other return for a success.
C8_NoneOnlyOnFailure ==
  (requests # <<>> /\ pc # "call")
  => /\ (result = PyNone) <=> ~Recognised
     /\ Recognised => (pc \in {"upload", "insert"} \/ uploads # <<>>)

\* C9: when the text of a 200 answer is JSON between fences, the loop
\* returns what the JSON decodes to; when the cleaned text does not decode,
\* the loop goes on to the next model or ends with the list.
C9_FencedJsonDecodesAsItself ==
  /\ \A f \in Fences, t \in FencedJson :
       resp.text = Envelope(Fenced(f, t))
       => pc # "call" /\ result = json_loads(t).v
  /\ \A t \in ProseTexts :
       resp.text = Envelope(t)
       => uncaught = "" /\ (pc = "call" \/ panel.shown)

\* text is the body of response r, or the body decoded and encoded anew.
IsBodyOf(text, r) ==
  \/ text = r.text
  \/ json_loads(r.text).ok /\ text = json_dumps(json_loads(r.text).v)

\* C10: the panel of the exhausted loop shows the body of the answer to the
\* last request, and one line per request, in the order of the requests.
C10_PanelShowsTheLastAnswer ==
  panel.shown
  => /\ IsBodyOf(panel.last_error_text, resp)
     /\ Len(panel.error_summary) = Len(requests)
     /\ \A k \in 1..Len(requests) :
          SubSeq(panel.error_summary[k], 1, 1) = <<requests[k].model>>

====
